---- MODULE Spec2Model ----
(***************************************************************************)
(* Model of openpiv_cpu/cpu_multiprocess.py: class mp_cpu.                 *)
(*                                                                         *)
(* mp_cpu(func, n_cpus) validates its arguments; run(pairs, indices)       *)
(* validates the batch, calls func once per zip(pairs, indices) element    *)
(* either through an mpire WorkerPool (n_cpus > 1, map_unordered) or in a  *)
(* plain loop, then zips the results with indices, sorts by index and      *)
(* strips the index.                                                       *)
(*                                                                         *)
(* Python values are modelled by records that keep what the code tests:    *)
(*   a pairs element   [istuple, elems]   isinstance(pair, tuple), len     *)
(*   an indices element [isint, val]      isinstance(item, int), item >= 0 *)
(*   a list argument   [islist, elems]    isinstance(x, list)              *)
(*   func              [callable, nargs, varargs, varkw, raises]           *)
(* func is an opaque deterministic callable: its return value is the free  *)
(* term [pair, index] of its two arguments, and it raises exactly on the   *)
(* payloads in func.raises.                                                *)
(***************************************************************************)
EXTENDS Integers, Sequences, FiniteSets

VARIABLES pc, func, n_cpus, pairs, indices, queue, running, res, pool,
          calls, outcome, ret

vars == <<pc, func, n_cpus, pairs, indices, queue, running, res, pool,
          calls, outcome, ret>>

\* ---------------------------------------------------------------- bounds
MaxLen == 3
MaxIndex == 2
MaxCpus == 2

\* ---------------------------------------------------------------- values
Unset == [unset |-> TRUE]

Pair1 == [istuple |-> TRUE, elems |-> <<1, 2>>]
Pair2 == [istuple |-> TRUE, elems |-> <<3, 4>>]
Triple == [istuple |-> TRUE, elems |-> <<1, 2, 3>>]
NonTuple == [istuple |-> FALSE, elems |-> <<1, 2>>]
Items == {Pair1, Pair2, Triple, NonTuple}

IndexValues == {[isint |-> TRUE, val |-> v] : v \in -1..MaxIndex}
                 \cup {[isint |-> FALSE, val |-> 1]}

SeqUpTo(S, n) == UNION {[1..k -> S] : k \in 0..n}

NotAList == [islist |-> FALSE, elems |-> <<>>]
PairsArgs == {NotAList} \cup {[islist |-> TRUE, elems |-> s] : s \in SeqUpTo(Items, MaxLen)}
IndicesArgs == {NotAList} \cup {[islist |-> TRUE, elems |-> s] : s \in SeqUpTo(IndexValues, MaxLen)}

RaiseSets == SUBSET {Pair1, Pair2}
NotCallable == [callable |-> FALSE, nargs |-> 0, varargs |-> FALSE, varkw |-> FALSE, raises |-> {}]
FuncArgs == {NotCallable} \cup
            [callable : {TRUE}, nargs : 1..3, varargs : BOOLEAN, varkw : BOOLEAN, raises : RaiseSets]
CpuArgs == [isint : BOOLEAN, val : -1..MaxCpus]

Min(a, b) == IF a <= b THEN a ELSE b

\* ------------------------------------------------------- __init__ checks
ValidFunc(f) == f.callable /\ f.nargs = 2 /\ ~f.varargs /\ ~f.varkw

ValidCountOrZero(n) == n.isint /\ n.val >= 0
ValidCount(n) == n.isint /\ n.val > 0

\* ------------------------------------------------------------ run checks
ValidPairsNonEmpty(p) == p.islist /\ p.elems # <<>>
                           /\ \A i \in 1..Len(p.elems) : p.elems[i].istuple /\ Len(p.elems[i].elems) = 2
ValidPairs(p) == p.islist
                   /\ \A i \in 1..Len(p.elems) : p.elems[i].istuple /\ Len(p.elems[i].elems) = 2

ValidIndicesNoSign(ix) == ix.islist /\ \A i \in 1..Len(ix.elems) : ix.elems[i].isint
ValidIndices(ix) == ix.islist
                      /\ (\A i \in 1..Len(ix.elems) : ix.elems[i].isint)
                      /\ (\A i \in 1..Len(ix.elems) : ix.elems[i].val >= 0)

\* ------------------------------------------------------------- run body
UsePoolGe(n) == n.val >= 1
UsePool(n) == n.val > 1

ZipStrict(a, b) == IF Len(a) = Len(b) THEN [i \in 1..Len(a) |-> <<a[i], b[i]>>] ELSE <<>>
Zip(a, b) == [i \in 1..Min(Len(a), Len(b)) |-> <<a[i], b[i]>>]

\* self.func(pair, index): the value it returns, and whether it raises
Apply(f, t) == [pair |-> t[1].elems, index |-> t[2].val]
Raises(f, t) == t[1] \in f.raises

\* sorted(res, key=lambda x: x[1]) is stable: equal keys keep their order
RECURSIVE InsertAfterEqual(_, _)
InsertAfterEqual(s, x) ==
    IF s = <<>> THEN <<x>>
    ELSE IF s[Len(s)][2].val <= x[2].val THEN Append(s, x)
    ELSE Append(InsertAfterEqual(SubSeq(s, 1, Len(s) - 1), x), s[Len(s)])

RECURSIVE SortedDedup(_)
SortedDedup(s) ==
    IF s = <<>> THEN <<>>
    ELSE LET h == SortedDedup(SubSeq(s, 1, Len(s) - 1))
             x == s[Len(s)]
         IN IF \E i \in 1..Len(h) : h[i][2].val = x[2].val THEN h
            ELSE InsertAfterEqual(h, x)

RECURSIVE Sorted(_)
Sorted(s) ==
    IF s = <<>> THEN <<>>
    ELSE InsertAfterEqual(Sorted(SubSeq(s, 1, Len(s) - 1)), s[Len(s)])

Strip(s) == [i \in 1..Len(s) |-> s[i][1]]

SortResults(r, ix) == Strip(Sorted(Zip(r, ix)))

ReleaseLeak(p) == p
Release(p) == "released"

\* the serial branch as a function of its inputs (no invocation raising)
SerialRun(f, p, ix) ==
    LET tasks == Zip(p, ix)
        r == [i \in 1..Len(tasks) |-> Apply(f, tasks[i])]
    IN SortResults(r, ix)

\* ------------------------------------------------------------------ Init
Init ==
    /\ pc = "new"
    /\ func = Unset
    /\ n_cpus = Unset
    /\ pairs = Unset
    /\ indices = Unset
    /\ queue = <<>>
    /\ running = {}
    /\ res = <<>>
    /\ pool = "none"
    /\ calls = <<>>
    /\ outcome = "none"
    /\ ret = Unset

\* mp_cpu.__init__(func, n_cpus)
Construct ==
    /\ pc = "new"
    /\ \E f \in FuncArgs, n \in CpuArgs :
         /\ func' = f
         /\ IF ~ValidFunc(f)
              THEN /\ n_cpus' = n_cpus
                   /\ pc' = "ctor_failed"
                   /\ outcome' = "InvalidArgument"
              ELSE /\ n_cpus' = n
                   /\ IF ValidCount(n)
                        THEN pc' = "ready" /\ outcome' = outcome
                        ELSE pc' = "ctor_failed" /\ outcome' = "InvalidArgument"
    /\ UNCHANGED <<pairs, indices, queue, running, res, pool, calls, ret>>

\* mp_cpu.run(pairs, indices): the assertions and the branch on n_cpus
RunCall ==
    /\ pc = "ready"
    /\ \E p \in PairsArgs, ix \in IndicesArgs :
         /\ pairs' = p
         /\ indices' = ix
         /\ IF ~(ValidPairs(p) /\ ValidIndices(ix))
              THEN /\ pc' = "done"
                   /\ outcome' = "InvalidArgument"
                   /\ UNCHANGED <<queue, pool>>
              ELSE /\ queue' = Zip(p.elems, ix.elems)
                   /\ outcome' = outcome
                   /\ IF UsePool(n_cpus)
                        THEN pc' = "pool" /\ pool' = "held"
                        ELSE pc' = "serial" /\ pool' = pool
    /\ UNCHANGED <<func, n_cpus, running, res, calls, ret>>

\* one iteration of the serial loop
SerialStep ==
    /\ pc = "serial"
    /\ queue # <<>>
    /\ LET t == Head(queue) IN
         /\ calls' = Append(calls, t)
         /\ IF Raises(func, t)
              THEN /\ pc' = "done"
                   /\ outcome' = "WorkerFailure"
                   /\ UNCHANGED <<queue, res>>
              ELSE /\ res' = Append(res, Apply(func, t))
                   /\ queue' = Tail(queue)
                   /\ UNCHANGED <<pc, outcome>>
    /\ UNCHANGED <<func, n_cpus, pairs, indices, running, pool, ret>>

\* a free worker of the pool takes the next submitted task
WorkerStart ==
    /\ pc = "pool"
    /\ queue # <<>>
    /\ Cardinality(running) < n_cpus.val
    /\ LET t == Head(queue) IN
         /\ calls' = Append(calls, t)
         /\ running' = running \cup {[k |-> Len(calls) + 1, task |-> t]}
         /\ queue' = Tail(queue)
    /\ UNCHANGED <<pc, func, n_cpus, pairs, indices, res, pool, outcome, ret>>

\* a running task swallowed on failure instead of aborting the batch
WorkerFinishSwallow ==
    /\ pc = "pool"
    /\ \E w \in running :
         /\ running' = running \ {w}
         /\ res' = IF Raises(func, w.task) THEN res ELSE Append(res, Apply(func, w.task))
         /\ UNCHANGED <<pc, outcome, pool>>
    /\ UNCHANGED <<func, n_cpus, pairs, indices, queue, calls, ret>>

\* a running task completes: its result is collected in completion order,
\* or its exception is re-raised in the caller and the with block exits
WorkerFinish ==
    /\ pc = "pool"
    /\ \E w \in running :
         IF Raises(func, w.task)
           THEN /\ pc' = "done"
                /\ outcome' = "WorkerFailure"
                /\ pool' = Release(pool)
                /\ UNCHANGED <<running, res>>
           ELSE /\ running' = running \ {w}
                /\ res' = Append(res, Apply(func, w.task))
                /\ UNCHANGED <<pc, outcome, pool>>
    /\ UNCHANGED <<func, n_cpus, pairs, indices, queue, calls, ret>>

\* map_unordered has returned every result: the with block exits
PoolExit ==
    /\ pc = "pool"
    /\ queue = <<>>
    /\ running = {}
    /\ pool' = Release(pool)
    /\ pc' = "sort"
    /\ UNCHANGED <<func, n_cpus, pairs, indices, queue, running, res, calls, outcome, ret>>

\* zip the results with indices, sort by index, strip, return
SortReturn ==
    /\ \/ pc = "sort"
       \/ pc = "serial" /\ queue = <<>>
    /\ ret' = SortResults(res, indices.elems)
    /\ outcome' = "returned"
    /\ pc' = "done"
    /\ UNCHANGED <<func, n_cpus, pairs, indices, queue, running, res, pool, calls>>

Next ==
    \/ Construct
    \/ RunCall
    \/ SerialStep
    \/ WorkerStart
    \/ WorkerFinish
    \/ PoolExit
    \/ SortReturn

Spec == Init /\ [][Next]_vars

\* ================================================================ claims

\* C1: a run that returns on an equal-length batch with distinct indices
\* returns, at output position k, the value func produced for the item
\* submitted with the k-th smallest index, for every worker count and
\* every completion order.
C1_ResultFollowsIndex ==
    (outcome = "returned" /\ Len(pairs.elems) = Len(indices.elems)
       /\ \A i, j \in 1..Len(indices.elems) : i # j => indices.elems[i].val # indices.elems[j].val)
    => /\ Len(ret) = Len(indices.elems)
       /\ \A k \in 1..Len(ret) : \E j \in 1..Len(indices.elems) :
            /\ Cardinality({i \in 1..Len(indices.elems) : indices.elems[i].val < indices.elems[j].val}) = k - 1
            /\ ret[k] = [pair |-> pairs.elems[j].elems, index |-> indices.elems[j].val]

\* C2: on the same valid batch (equal lengths, distinct indices) a run with
\* worker count > 1 returns the sequence the run with worker count 1
\* returns, whatever the completion order.
C2_ParallelEqualsSerial ==
    (outcome = "returned" /\ n_cpus.val > 1 /\ Len(pairs.elems) = Len(indices.elems)
       /\ \A i, j \in 1..Len(indices.elems) : i # j => indices.elems[i].val # indices.elems[j].val)
    => ret = SerialRun(func, pairs.elems, indices.elems)

\* C3: a run that returns on a non-empty equal-length batch returns
\* len(items) results, each produced value as often as it was produced
\* (nothing dropped, nothing duplicated).
C3_CardinalityPreserved ==
    (outcome = "returned" /\ Len(pairs.elems) = Len(indices.elems) /\ Len(pairs.elems) > 0)
    => /\ Len(ret) = Len(pairs.elems)
       /\ \A j \in 1..Len(pairs.elems) :
            LET v == [pair |-> pairs.elems[j].elems, index |-> indices.elems[j].val]
            IN Cardinality({k \in 1..Len(ret) : ret[k] = v})
                 = Cardinality({i \in 1..Len(pairs.elems) :
                      [pair |-> pairs.elems[i].elems, index |-> indices.elems[i].val] = v})

\* a parallel run of at least two items whose results completed out of
\* submission order has returned
C3_Witness ==
    /\ outcome = "returned" /\ n_cpus.val > 1
    /\ Len(pairs.elems) = Len(indices.elems) /\ Len(pairs.elems) >= 2
    /\ res # [i \in 1..Len(pairs.elems) |-> [pair |-> pairs.elems[i].elems, index |-> indices.elems[i].val]]

\* C4: when items is not a list, or an element of items is not a
\* two-element tuple, or indices is not a list of non-negative integers,
\* run fails with InvalidArgument, func has not been invoked and no pool
\* has been acquired.
C4_EagerPreconditions ==
    (pairs # Unset
       /\ \/ ~pairs.islist
          \/ \E i \in 1..Len(pairs.elems) : ~pairs.elems[i].istuple \/ Len(pairs.elems[i].elems) # 2
          \/ ~indices.islist
          \/ \E i \in 1..Len(indices.elems) : ~indices.elems[i].isint \/ indices.elems[i].val < 0)
    => /\ pc = "done" /\ outcome = "InvalidArgument"
       /\ calls = <<>> /\ running = {} /\ pool = "none" /\ ret = Unset

\* a dispatcher with more than one worker rejected a batch of well-formed
\* pairs because of a negative index
C4_Witness ==
    /\ outcome = "InvalidArgument" /\ pc = "done" /\ n_cpus.val > 1
    /\ pairs.islist /\ Len(pairs.elems) >= 1
    /\ \A i \in 1..Len(pairs.elems) : pairs.elems[i].istuple /\ Len(pairs.elems[i].elems) = 2
    /\ indices.islist /\ Len(indices.elems) = Len(pairs.elems)
    /\ \A i \in 1..Len(indices.elems) : indices.elems[i].isint
    /\ \E i \in 1..Len(indices.elems) : indices.elems[i].val < 0

\* C5: construction fails with InvalidArgument when func is not callable,
\* does not have exactly two positional parameters and no *args / **kw, or
\* when n_cpus is not a positive integer; a dispatcher on which run can be
\* called has worker count >= 1 and a two-parameter func.
C5_ConstructionRejects ==
    /\ (pc # "new"
          /\ \/ ~func.callable \/ func.nargs # 2 \/ func.varargs \/ func.varkw
             \/ (n_cpus # Unset /\ (~n_cpus.isint \/ n_cpus.val < 1)))
       => pc = "ctor_failed" /\ outcome = "InvalidArgument"
    /\ pc \notin {"new", "ctor_failed"}
       => /\ n_cpus # Unset /\ n_cpus.isint /\ n_cpus.val >= 1
          /\ func.callable /\ func.nargs = 2 /\ ~func.varargs /\ ~func.varkw

\* construction with a well-formed func and worker count 0 has failed
C5_Witness ==
    /\ pc = "ctor_failed" /\ outcome = "InvalidArgument"
    /\ func.callable /\ func.nargs = 2 /\ ~func.varargs /\ ~func.varkw
    /\ n_cpus # Unset /\ n_cpus.isint /\ n_cpus.val = 0

\* C6: once run is over, if any invocation it made raised then run ended
\* with the worker's failure and returned no result list; every invocation
\* is of the next not yet invoked (item, index) element, so none is retried.
C6_WorkerFailureFatal ==
    /\ (pc = "done" /\ \E i \in 1..Len(calls) : calls[i][1] \in func.raises)
       => outcome = "WorkerFailure" /\ ret = Unset
    /\ pairs # Unset
       => /\ Len(calls) <= Min(Len(pairs.elems), Len(indices.elems))
          /\ \A i \in 1..Len(calls) : calls[i] = <<pairs.elems[i], indices.elems[i]>>

\* a parallel run failed on a raising item after another item's result
\* had already been collected
C6_Witness ==
    /\ pc = "done" /\ outcome = "WorkerFailure" /\ n_cpus.val > 1
    /\ Len(res) >= 1 /\ ret = Unset
    /\ \E i \in 1..Len(calls) : calls[i][1] \in func.raises

\* C7: the pool is held only while the parallel stage of run is in
\* progress; after run has returned or failed no pool is held.
C7_PoolReleased ==
    /\ pc = "done" => pool # "held"
    /\ pool = "held" => pc = "pool"

\* a parallel run failed in a worker and its pool is released
C7_Witness ==
    /\ pc = "done" /\ outcome = "WorkerFailure" /\ n_cpus.val > 1 /\ pool = "released"

\* C8: run([], []) never invokes func, never puts a worker to work, never
\* fails, and returns the empty list.
C8_EmptyBatch ==
    (pairs # Unset /\ pairs.islist /\ indices.islist /\ pairs.elems = <<>> /\ indices.elems = <<>>)
    => /\ calls = <<>> /\ running = {}
       /\ outcome \in {"none", "returned"}
       /\ pc = "done" => outcome = "returned" /\ ret = <<>>

\* run([], []) has returned on a dispatcher with more than one worker
C8_Witness ==
    /\ pc = "done" /\ outcome = "returned" /\ ret = <<>> /\ n_cpus.val > 1
    /\ pairs.islist /\ indices.islist /\ pairs.elems = <<>> /\ indices.elems = <<>>

\* C9: with worker count 1 no pool is acquired, the k-th invocation is on
\* the k-th (item, index) element, no invocation is in flight when the
\* next starts, and run returns only after one invocation per element.
C9_SerialInOrder ==
    (pairs # Unset /\ n_cpus.val = 1)
    => /\ pool = "none" /\ running = {}
       /\ Len(calls) <= Min(Len(pairs.elems), Len(indices.elems))
       /\ \A i \in 1..Len(calls) : calls[i] = <<pairs.elems[i], indices.elems[i]>>
       /\ Len(res) = Len(calls) \/ (outcome = "WorkerFailure" /\ Len(res) + 1 = Len(calls))
       /\ outcome = "returned"
            => /\ Len(calls) = Min(Len(pairs.elems), Len(indices.elems))
               /\ Len(res) = Len(calls)
               /\ Len(ret) = Len(calls)

\* a serial run of at least two items has returned
C9_Witness ==
    /\ n_cpus # Unset /\ n_cpus.val = 1 /\ outcome = "returned" /\ Len(calls) >= 2

\* C10: individually valid items and indices of different lengths are not
\* rejected; func is invoked only on the first min(len) positions and a
\* run that returns returns exactly min(len) results.
C10_Truncation ==
    (pairs # Unset /\ pairs.islist /\ indices.islist
       /\ (\A i \in 1..Len(pairs.elems) : pairs.elems[i].istuple /\ Len(pairs.elems[i].elems) = 2)
       /\ (\A i \in 1..Len(indices.elems) : indices.elems[i].isint /\ indices.elems[i].val >= 0)
       /\ Len(pairs.elems) # Len(indices.elems))
    => /\ outcome # "InvalidArgument"
       /\ Len(calls) <= Min(Len(pairs.elems), Len(indices.elems))
       /\ \A i \in 1..Len(calls) : calls[i] = <<pairs.elems[i], indices.elems[i]>>
       /\ outcome = "returned"
            => /\ Len(ret) = Min(Len(pairs.elems), Len(indices.elems))
               /\ Len(calls) = Min(Len(pairs.elems), Len(indices.elems))

\* a run with more items than indices, at least one index, has returned
C10_Witness ==
    /\ outcome = "returned"
    /\ Len(pairs.elems) > Len(indices.elems) /\ Len(indices.elems) >= 1

====
